---- MODULE Spec2Model ----
(***************************************************************************)
(* Model of scripts/generate.py: the restriction-enzyme catalog exporter.  *)
(*                                                                         *)
(* main() enumerates the provider's catalog (AllEnzymes), skips entries    *)
(* without cut sites or without the expected attributes, maps the others   *)
(* with extract_enzyme_data, sorts the list by name, renders it with       *)
(* generate_typescript, overwrites the destination file and prints the     *)
(* count.                                                                  *)
(*                                                                         *)
(* Python values are tagged records [tag, val]: tag "missing" is an        *)
(* attribute the entry does not expose (reading it raises AttributeError), *)
(* tag "None" is the value None.  A str is a sequence of one-character     *)
(* strings.  A text (the generated file) is a sequence of atoms: the       *)
(* one-character strings, and the fixed header lines of                    *)
(* generate_typescript, each a single atom that contains no newline.       *)
(***************************************************************************)
EXTENDS Integers, Sequences, FiniteSets, TLC

\* ------------------------------------------------------------------ bounds

\* The stagger values of the catalog lie in -MaxStagger..MaxStagger.
MaxStagger == 2

\* The longest catalog of curated entries.
MaxCatalog == 3

\* ------------------------------------------------------------ Python values

IntV(n) == [tag |-> "int", val |-> n]
NoneInt == [tag |-> "None", val |-> 0]
MissingInt == [tag |-> "missing", val |-> 0]

StrV(s) == [tag |-> "str", val |-> s]
NoneStr == [tag |-> "None", val |-> <<>>]
MissingStr == [tag |-> "missing", val |-> <<>>]

TupleV(t) == [tag |-> "tuple", val |-> t]
NoneTuple == [tag |-> "None", val |-> <<>>]
MissingTuple == [tag |-> "missing", val |-> <<>>]

\* The code point of a character (Python compares str by code point).
Ord(c) ==
    CASE c = "\"" -> 34
      [] c = "B" -> 66
      [] c = "G" -> 71
      [] c = "N" -> 78
      [] c = "R" -> 82
      [] c = "\\" -> 92
      [] c = "a" -> 97

\* str.__lt__: lexicographic by code point, a proper prefix is smaller.
RECURSIVE StrLt(_, _)
StrLt(a, b) ==
    IF b = <<>> THEN FALSE
    ELSE IF a = <<>> THEN TRUE
    ELSE IF Ord(Head(a)) < Ord(Head(b)) THEN TRUE
    ELSE IF Ord(Head(a)) > Ord(Head(b)) THEN FALSE
    ELSE StrLt(Tail(a), Tail(b))

\* ------------------------------------------------------ get_overhang_info

Abs(n) == IF n < 0 THEN -n ELSE n

\* The result of a call: exc is "none" and ret holds the one value returned,
\* or exc names the exception raised and ret is empty.
Return(v) == [exc |-> "none", ret |-> <<v>>]
Raise(e) == [exc |-> e, ret |-> <<>>]

\* get_overhang_info with the abs() of line 17 left out.
get_overhang_info_no_abs(enzyme) ==
    LET ovhg == enzyme.ovhg IN
    IF ovhg.tag = "missing" THEN Raise("AttributeError")
    ELSE IF ovhg.tag = "None" THEN Raise("TypeError")
    ELSE IF ovhg.val = 0 THEN Return([length |-> 0, type |-> "blunt"])
    ELSE IF ovhg.val < 0 THEN Return([length |-> ovhg.val, type |-> "5'"])
    ELSE Return([length |-> ovhg.val, type |-> "3'"])

\* get_overhang_info(enzyme): reads enzyme.ovhg, then compares it with 0.
get_overhang_info(enzyme) ==
    LET ovhg == enzyme.ovhg IN
    IF ovhg.tag = "missing" THEN Raise("AttributeError")
    ELSE IF ovhg.tag = "None" THEN Raise("TypeError")   \* None < 0
    ELSE IF ovhg.val = 0 THEN Return([length |-> 0, type |-> "blunt"])
    ELSE IF ovhg.val < 0 THEN Return([length |-> Abs(ovhg.val), type |-> "5'"])
    ELSE Return([length |-> ovhg.val, type |-> "3'"])

\* ---------------------------------------------------- extract_enzyme_data

\* The expression `list(enzyme.suppl) if enzyme.suppl else []`, for a suppl
\* that is exposed: None and the empty tuple are falsy.
suppliers_of(suppl) ==
    IF suppl.tag = "tuple" /\ suppl.val # <<>> THEN suppl.val ELSE <<>>

\* extract_enzyme_data with the two cut positions exchanged.
extract_enzyme_data_swapped(enzyme) ==
    LET oh == get_overhang_info(enzyme) IN
    IF oh.exc # "none" THEN Raise(oh.exc)
    ELSE IF enzyme.site.tag = "missing" THEN Raise("AttributeError")
    ELSE IF enzyme.fst5.tag = "missing" THEN Raise("AttributeError")
    ELSE IF enzyme.fst3.tag = "missing" THEN Raise("AttributeError")
    ELSE IF enzyme.suppl.tag = "missing" THEN Raise("AttributeError")
    ELSE Return([name |-> enzyme.name,
                 site |-> enzyme.site,
                 forwardCut |-> enzyme.fst3,
                 reverseCut |-> enzyme.fst5,
                 overhangLength |-> oh.ret[1].length,
                 overhangType |-> oh.ret[1].type,
                 suppliers |-> suppliers_of(enzyme.suppl)])

\* extract_enzyme_data with `list(enzyme.suppl)` alone on line 34: list(None)
\* raises TypeError.
extract_enzyme_data_no_default(enzyme) ==
    LET oh == get_overhang_info(enzyme) IN
    IF oh.exc # "none" THEN Raise(oh.exc)
    ELSE IF enzyme.site.tag = "missing" THEN Raise("AttributeError")
    ELSE IF enzyme.fst5.tag = "missing" THEN Raise("AttributeError")
    ELSE IF enzyme.fst3.tag = "missing" THEN Raise("AttributeError")
    ELSE IF enzyme.suppl.tag = "missing" THEN Raise("AttributeError")
    ELSE IF enzyme.suppl.tag = "None" THEN Raise("TypeError")
    ELSE Return([name |-> enzyme.name,
                 site |-> enzyme.site,
                 forwardCut |-> enzyme.fst5,
                 reverseCut |-> enzyme.fst3,
                 overhangLength |-> oh.ret[1].length,
                 overhangType |-> oh.ret[1].type,
                 suppliers |-> enzyme.suppl.val])

\* extract_enzyme_data(enzyme): the overhang first, then the dict's values in
\* the order they are written.
extract_enzyme_data(enzyme) ==
    LET oh == get_overhang_info(enzyme) IN
    IF oh.exc # "none" THEN Raise(oh.exc)
    ELSE IF enzyme.site.tag = "missing" THEN Raise("AttributeError")
    ELSE IF enzyme.fst5.tag = "missing" THEN Raise("AttributeError")
    ELSE IF enzyme.fst3.tag = "missing" THEN Raise("AttributeError")
    ELSE IF enzyme.suppl.tag = "missing" THEN Raise("AttributeError")
    ELSE Return([name |-> enzyme.name,
                 site |-> enzyme.site,
                 forwardCut |-> enzyme.fst5,
                 reverseCut |-> enzyme.fst3,
                 overhangLength |-> oh.ret[1].length,
                 overhangType |-> oh.ret[1].type,
                 suppliers |-> suppliers_of(enzyme.suppl)])

\* The loop body with the test of line 62 reduced to `enzyme.fst5 is None`.
loop_body_fst5_only(enzyme) ==
    IF enzyme.fst5.tag = "missing" THEN [outcome |-> "AttributeError", data |-> <<>>]
    ELSE IF enzyme.fst5.tag = "None" THEN [outcome |-> "no_cut_site", data |-> <<>>]
    ELSE LET r == extract_enzyme_data(enzyme) IN
         IF r.exc = "none" THEN [outcome |-> "appended", data |-> r.ret]
         ELSE [outcome |-> r.exc, data |-> <<>>]

\* One pass of the body of main's loop over `enzyme`: what happens to it.
\*   "no_cut_site"  the `continue` of line 63,
\*   "appended"     data was appended to enzymes,
\*   an exception name: the except clause of line 67 caught it.
loop_body(enzyme) ==
    IF enzyme.fst5.tag = "missing" THEN [outcome |-> "AttributeError", data |-> <<>>]
    ELSE IF enzyme.fst5.tag = "None" THEN [outcome |-> "no_cut_site", data |-> <<>>]
    ELSE IF enzyme.fst3.tag = "missing" THEN [outcome |-> "AttributeError", data |-> <<>>]
    ELSE IF enzyme.fst3.tag = "None" THEN [outcome |-> "no_cut_site", data |-> <<>>]
    ELSE LET r == extract_enzyme_data(enzyme) IN
         IF r.exc = "none" THEN [outcome |-> "appended", data |-> r.ret]
         ELSE [outcome |-> r.exc, data |-> <<>>]

\* ------------------------------------------------------------ list.sort

\* Insert record r into the sorted list s after every element whose name is
\* not greater: the place a stable sort gives it.
RECURSIVE InsertByName(_, _)
InsertByName(s, r) ==
    IF s = <<>> THEN <<r>>
    ELSE IF StrLt(r.name, Head(s).name) THEN <<r>> \o s
    ELSE <<Head(s)>> \o InsertByName(Tail(s), r)

\* The sort with reverse=True.
RECURSIVE sort_descending(_)
sort_descending(s) ==
    IF s = <<>> THEN <<>>
    ELSE LET rest == sort_descending(SubSeq(s, 1, Len(s) - 1))
             r == s[Len(s)]
             k == Cardinality({j \in 1..Len(rest) : ~StrLt(rest[j].name, r.name)})
         IN SubSeq(rest, 1, k) \o <<r>> \o SubSeq(rest, k + 1, Len(rest))

\* The sort left out.
sort_omitted(s) == s

\* A sort that keeps one record per name (the records collected in a dict
\* keyed by name): the last one of each name.
RECURSIVE sort_one_per_name(_)
sort_one_per_name(s) ==
    IF s = <<>> THEN <<>>
    ELSE LET r == s[Len(s)]
             rest == sort_one_per_name(SubSeq(s, 1, Len(s) - 1))
             others == LET keep == {j \in 1..Len(rest) : rest[j].name # r.name}
                           F[k \in 0..Len(rest)] ==
                               IF k = 0 THEN <<>>
                               ELSE IF k \in keep THEN Append(F[k - 1], rest[k]) ELSE F[k - 1]
                       IN F[Len(rest)]
         IN InsertByName(others, r)

\* enzymes.sort(key=lambda e: e["name"]): list.sort is stable.
RECURSIVE sort_by_name(_)
sort_by_name(s) ==
    IF s = <<>> THEN <<>>
    ELSE InsertByName(sort_by_name(SubSeq(s, 1, Len(s) - 1)), s[Len(s)])

\* ------------------------------------------------------------ json.dumps

NL == "\n"

RECURSIVE Spaces(_)
Spaces(n) == IF n = 0 THEN <<>> ELSE <<" ">> \o Spaces(n - 1)

\* The separator json.dumps writes before an item at nesting level `level`
\* under indent=2: a newline and 2 * level spaces.
newline_indent(level) == <<NL>> \o Spaces(2 * level)

\* The texts of seq, with sep between each two.
RECURSIVE Join(_, _)
Join(seq, sep) ==
    IF seq = <<>> THEN <<>>
    ELSE IF Len(seq) = 1 THEN seq[1]
    ELSE seq[1] \o sep \o Join(Tail(seq), sep)

DigitChars == <<"0", "1", "2", "3", "4", "5", "6", "7", "8", "9">>

RECURSIVE Digits(_)
Digits(n) ==
    IF n < 10 THEN <<DigitChars[n + 1]>>
    ELSE Digits(n \div 10) \o <<DigitChars[(n % 10) + 1]>>

\* int.__repr__, as json.dumps writes an int.
json_int(n) == IF n < 0 THEN <<"-">> \o Digits(-n) ELSE Digits(n)

\* The escape of one character inside a JSON string (py_encode_basestring_ascii):
\* the quote and the backslash get a backslash before them.
json_escape(c) ==
    IF c = "\"" THEN <<"\\", "\"">>
    ELSE IF c = "\\" THEN <<"\\", "\\">>
    ELSE <<c>>

RECURSIVE json_escape_all(_)
json_escape_all(s) ==
    IF s = <<>> THEN <<>> ELSE json_escape(Head(s)) \o json_escape_all(Tail(s))

json_string(s) == <<"\"">> \o json_escape_all(s) \o <<"\"">>

\* A tagged value: None is written null.
json_value(v) ==
    IF v.tag = "None" THEN <<"n", "u", "l", "l">>
    ELSE IF v.tag = "int" THEN json_int(v.val)
    ELSE json_string(v.val)

\* _iterencode_list at nesting level `level`, for items already rendered.
json_list(items, level) ==
    IF items = <<>> THEN <<"[", "]">>
    ELSE <<"[">> \o newline_indent(level + 1)
         \o Join(items, <<",">> \o newline_indent(level + 1))
         \o newline_indent(level) \o <<"]">>

\* _iterencode_dict at nesting level `level`, for <<key, rendered value>> pairs;
\* the key separator under indent is ": ".
json_dict(pairs, level) ==
    IF pairs = <<>> THEN <<"{", "}">>
    ELSE <<"{">> \o newline_indent(level + 1)
         \o Join([k \in 1..Len(pairs) |->
                     json_string(pairs[k][1]) \o <<":", " ">> \o pairs[k][2]],
                 <<",">> \o newline_indent(level + 1))
         \o newline_indent(level) \o <<"}">>

KeyName == <<"n", "a", "m", "e">>
KeySite == <<"s", "i", "t", "e">>
KeyForwardCut == <<"f", "o", "r", "w", "a", "r", "d", "C", "u", "t">>
KeyReverseCut == <<"r", "e", "v", "e", "r", "s", "e", "C", "u", "t">>
KeyOverhangLength == <<"o", "v", "e", "r", "h", "a", "n", "g", "L", "e", "n", "g", "t", "h">>
KeyOverhangType == <<"o", "v", "e", "r", "h", "a", "n", "g", "T", "y", "p", "e">>
KeySuppliers == <<"s", "u", "p", "p", "l", "i", "e", "r", "s">>

\* The characters of the overhang type, a str of get_overhang_info.
TypeChars(t) ==
    CASE t = "blunt" -> <<"b", "l", "u", "n", "t">>
      [] t = "5'" -> <<"5", "'">>
      [] t = "3'" -> <<"3", "'">>

\* One record (a dict of extract_enzyme_data) at nesting level 1: a dict keeps
\* the order its keys were inserted in, that of the dict display of line 27.
json_record(r) ==
    json_dict(<< <<KeyName, json_string(r.name)>>,
                 <<KeySite, json_value(r.site)>>,
                 <<KeyForwardCut, json_value(r.forwardCut)>>,
                 <<KeyReverseCut, json_value(r.reverseCut)>>,
                 <<KeyOverhangLength, json_int(r.overhangLength)>>,
                 <<KeyOverhangType, json_string(TypeChars(r.overhangType))>>,
                 <<KeySuppliers,
                   json_list([k \in 1..Len(r.suppliers) |-> json_string(r.suppliers[k])], 2)>> >>,
              1)

\* json.dumps(enzymes, indent=2)
json_dumps(enzymes) ==
    json_list([k \in 1..Len(enzymes) |-> json_record(enzymes[k])], 0)

\* ---------------------------------------------------- generate_typescript

Banner1 == "// Auto-generated from BioPython Bio.Restriction - DO NOT EDIT"
Banner2 == "// Regenerate with: uv run generate-enzymes"
ImportLine == "import type { RestrictionEnzyme } from \"./types.js\";"
DeclLine == "export const enzymes: RestrictionEnzyme[] = "

\* generate_typescript without the final newline of line 52.
generate_typescript_no_newline(enzymes) ==
    LET lines == << <<Banner1>>, <<Banner2>>, <<>>, <<ImportLine>>, <<>>, <<DeclLine>>,
                    json_dumps(enzymes) \o <<";">> >>
    IN Join(lines, <<NL>>)

\* generate_typescript(enzymes): the six header lines, then the JSON text with
\* ";" appended, joined by newlines, and a final newline.
generate_typescript(enzymes) ==
    LET lines == << <<Banner1>>, <<Banner2>>, <<>>, <<ImportLine>>, <<>>, <<DeclLine>>,
                    json_dumps(enzymes) \o <<";">> >>
    IN Join(lines, <<NL>>) \o <<NL>>

\* ------------------------------------------------------------ the catalog

\* A raw entry of the provider: str(enzyme) always yields the name; every
\* other attribute may be missing or None.
Entry(n, st, f5, f3, o, su) ==
    [name |-> n, site |-> st, fst5 |-> f5, fst3 |-> f3, ovhg |-> o, suppl |-> su]

Staggers == (-MaxStagger)..MaxStagger

\* Every combination of attribute states, for catalogs of one entry.
AnyEntry ==
    { Entry(n, st, f5, f3, o, su) :
        n \in {<<"B">>, <<"a", "\"">>},
        st \in {MissingStr, NoneStr, StrV(<<"G">>)},
        f5 \in {MissingInt, NoneInt, IntV(1)},
        f3 \in {MissingInt, NoneInt, IntV(-1)},
        o \in {MissingInt, NoneInt} \cup {IntV(s) : s \in Staggers},
        su \in {MissingTuple, NoneTuple, TupleV(<<>>),
                TupleV(<< <<"N">>, <<"R">> >>), TupleV(<< <<"R">>, <<"N">> >>)} }

\* The entries of the longer catalogs: usable ones (two of them share the name
\* "B" and differ in their data), one that lacks its site attribute and one
\* whose stagger is None.
EcoRI == Entry(<<"B">>, StrV(<<"G">>), IntV(1), IntV(-1), IntV(-1), TupleV(<< <<"N">>, <<"R">> >>))
EcoRIb == Entry(<<"B">>, StrV(<<"G", "G">>), IntV(1), IntV(-1), IntV(1), TupleV(<< <<"R">> >>))
SmaI == Entry(<<"a">>, StrV(<<"G">>), IntV(3), IntV(3), IntV(0), NoneTuple)
PstI == Entry(<<"B", "a">>, StrV(<<"G">>), IntV(5), IntV(1), IntV(1), TupleV(<<>>))
NoSite == Entry(<<"B", "a">>, MissingStr, IntV(1), IntV(-1), IntV(-1), NoneTuple)
NoStagger == Entry(<<"a", "B">>, StrV(<<"G">>), IntV(1), IntV(-1), NoneInt, TupleV(<<>>))

SomeEntry == {EcoRI, EcoRIb, SmaI, PstI, NoSite, NoStagger}

Catalogs ==
    { <<e>> : e \in AnyEntry }
    \cup UNION { [1..n -> SomeEntry] : n \in 0..MaxCatalog }

\* The orders in which a provider may enumerate the entries of catalog c.
Enumerations(c) ==
    { [k \in 1..Len(c) |-> c[p[k]]] :
        p \in { q \in [1..Len(c) -> 1..Len(c)] :
                  \A a, b \in 1..Len(c) : q[a] = q[b] => a = b } }

\* ------------------------------------------------------------------ state

VARIABLES
    catalog,     \* AllEnzymes, in the order this run enumerates it
    pc,          \* where main is: "loop", "generate", "write", "print", "done", "failed"
    i,           \* how many entries the for loop has taken
    enzyme,      \* the loop variable: <<>> before the first pass, else <<entry>>
    outcome,     \* what the last pass of the loop body did with `enzyme`
    data,        \* the local `data`: <<>> while unbound, else <<record>>
    enzymes,     \* the list `enzymes`
    ts_content,  \* the local `ts_content`: <<>> while unbound
    file,        \* the text of src/enzymes.ts; <<>> while it does not exist
    stdout,      \* the counts this run printed
    previous     \* <<>> in the first run; in the second, <<what the first run left>>

vars == <<catalog, pc, i, enzyme, outcome, data, enzymes, ts_content, file, stdout, previous>>

Init ==
    /\ catalog \in Catalogs
    /\ pc = "loop"
    /\ i = 0
    /\ enzyme = <<>>
    /\ outcome = "none"
    /\ data = <<>>
    /\ enzymes = <<>>
    /\ ts_content = <<>>
    /\ file = <<>>
    /\ stdout = <<>>
    /\ previous = <<>>

\* An except clause that names AttributeError alone.
caught_attribute_only(exc) == exc = "AttributeError"

\* The except clause of line 67: the exceptions it catches.
caught(exc) == exc \in {"AttributeError", "TypeError"}

\* One pass of the for loop (lines 59-69) over the next entry.  An exception
\* the except clause does not catch leaves main.
LoopStep ==
    /\ pc = "loop"
    /\ i < Len(catalog)
    /\ LET e == catalog[i + 1]
           r == loop_body(e)
       IN /\ enzyme' = <<e>>
          /\ outcome' = r.outcome
          /\ data' = IF r.outcome = "appended" THEN r.data ELSE data
          /\ enzymes' = IF r.outcome = "appended" THEN enzymes \o r.data ELSE enzymes
          /\ pc' = IF r.outcome \in {"appended", "no_cut_site"} \/ caught(r.outcome)
                   THEN pc ELSE "failed"
    /\ i' = i + 1
    /\ UNCHANGED <<catalog, ts_content, file, stdout, previous>>

\* The loop is exhausted; line 72 sorts the list.
Sort ==
    /\ pc = "loop"
    /\ i = Len(catalog)
    /\ enzymes' = sort_by_name(enzymes)
    /\ pc' = "generate"
    /\ UNCHANGED <<catalog, i, enzyme, outcome, data, ts_content, file, stdout, previous>>

\* Line 75.
Generate ==
    /\ pc = "generate"
    /\ ts_content' = generate_typescript(enzymes)
    /\ pc' = "write"
    /\ UNCHANGED <<catalog, i, enzyme, outcome, data, enzymes, file, stdout, previous>>

\* A write that appends to the file instead of replacing it.
write_text_append(old, text) == old \o text

\* Path.write_text: the text replaces whatever the file held.
write_text(old, text) == text

\* Line 79, the write succeeds.
Write ==
    /\ pc = "write"
    /\ file' = write_text(file, ts_content)
    /\ pc' = "print"
    /\ UNCHANGED <<catalog, i, enzyme, outcome, data, enzymes, ts_content, stdout, previous>>

\* Line 79, the file cannot be opened for writing (permissions, no directory):
\* OSError leaves main, nothing catches it.
WriteFails ==
    /\ pc = "write"
    /\ pc' = "failed"
    /\ UNCHANGED <<catalog, i, enzyme, outcome, data, enzymes, ts_content, file, stdout, previous>>

\* Line 81.
Report ==
    /\ pc = "print"
    /\ stdout' = Append(stdout, Len(enzymes))
    /\ pc' = "done"
    /\ UNCHANGED <<catalog, i, enzyme, outcome, data, enzymes, ts_content, file, previous>>

\* The script is run again (a new process: main's locals and the standard
\* output start afresh, the file is what the first run left); the provider
\* holds the same entries and enumerates them in some order.
Rerun ==
    /\ pc = "done"
    /\ previous = <<>>
    /\ previous' = <<[catalog |-> catalog, enzymes |-> enzymes, file |-> file]>>
    /\ catalog' \in Enumerations(catalog)
    /\ pc' = "loop"
    /\ i' = 0
    /\ enzyme' = <<>>
    /\ outcome' = "none"
    /\ data' = <<>>
    /\ enzymes' = <<>>
    /\ ts_content' = <<>>
    /\ stdout' = <<>>
    /\ UNCHANGED file

Next ==
    \/ LoopStep
    \/ Sort
    \/ Generate
    \/ Write
    \/ WriteFails
    \/ Report
    \/ Rerun

Spec == Init /\ [][Next]_vars

\* ------------------------------------------------- reading a generated text

\* What a reader of the generated file sees.  A JSON value read back is
\* [kind, str, num, arr]: kind is "string", "number", "null" or "array".

JString(x) == [kind |-> "string", str |-> x, num |-> 0, arr |-> <<>>]
JNumber(n) == [kind |-> "number", str |-> <<>>, num |-> n, arr |-> <<>>]
JNull == [kind |-> "null", str |-> <<>>, num |-> 0, arr |-> <<>>]
JArray(a) == [kind |-> "array", str |-> <<>>, num |-> 0, arr |-> a]
JBad == [kind |-> "malformed", str |-> <<>>, num |-> 0, arr |-> <<>>]

\* The lines of a text: its pieces between newlines.
RECURSIVE SplitLines(_)
SplitLines(t) ==
    IF \A k \in 1..Len(t) : t[k] # "\n" THEN <<t>>
    ELSE LET k == CHOOSE k \in 1..Len(t) : t[k] = "\n" /\ \A j \in 1..(k - 1) : t[j] # "\n"
         IN <<SubSeq(t, 1, k - 1)>> \o SplitLines(SubSeq(t, k + 1, Len(t)))

StartsWith(l, prefix) ==
    Len(l) >= Len(prefix) /\ SubSeq(l, 1, Len(prefix)) = prefix

EndsWith(l, c) == l # <<>> /\ l[Len(l)] = c

DropLast(l) == SubSeq(l, 1, Len(l) - 1)

IsDigit(c) == c \in {"0", "1", "2", "3", "4", "5", "6", "7", "8", "9"}

DigitValue(c) == CHOOSE d \in 0..9 : DigitChars[d + 1] = c

RECURSIVE ReadNat(_)
ReadNat(ds) ==
    IF Len(ds) = 1 THEN DigitValue(ds[1])
    ELSE 10 * ReadNat(DropLast(ds)) + DigitValue(ds[Len(ds)])

AllDigits(ds) == ds # <<>> /\ \A k \in 1..Len(ds) : IsDigit(ds[k])

\* The characters a JSON string body stands for: a backslash makes the next
\* character literal.  <<"\n">> (no body holds a newline) marks a bad body.
RECURSIVE Unescape(_)
Unescape(b) ==
    IF b = <<>> THEN <<>>
    ELSE IF b[1] = "\\" THEN
        IF Len(b) = 1 THEN <<"\n">>
        ELSE <<b[2]>> \o Unescape(SubSeq(b, 3, Len(b)))
    ELSE IF b[1] = "\"" THEN <<"\n">>
    ELSE <<b[1]>> \o Unescape(Tail(b))

\* A scalar JSON value, or the empty array, written on one line.
ReadScalar(v) ==
    IF v = <<"n", "u", "l", "l">> THEN JNull
    ELSE IF v = <<"[", "]">> THEN JArray(<<>>)
    ELSE IF Len(v) >= 2 /\ v[1] = "\"" /\ v[Len(v)] = "\"" THEN
        LET u == Unescape(SubSeq(v, 2, Len(v) - 1))
        IN IF \E k \in 1..Len(u) : u[k] = "\n" THEN JBad ELSE JString(u)
    ELSE IF AllDigits(v) THEN JNumber(ReadNat(v))
    ELSE IF Len(v) >= 2 /\ v[1] = "-" /\ AllDigits(Tail(v)) THEN JNumber(-ReadNat(Tail(v)))
    ELSE JBad

\* A line of a sequence of items: it carries a comma exactly when another
\* item follows.  The line without that comma, or <<"\n">> when the comma is
\* wrong.
ItemText(l, more) ==
    IF more THEN (IF EndsWith(l, ",") THEN DropLast(l) ELSE <<"\n">>)
    ELSE l

\* The items of a multi-line array of strings at 6 spaces.
RECURSIVE ReadItems(_)
ReadItems(ls) ==
    IF ls = <<>> THEN [ok |-> TRUE, items |-> <<>>]
    ELSE LET l == ItemText(ls[1], Len(ls) > 1)
             v == IF StartsWith(l, <<" ", " ", " ", " ", " ", " ", "\"">>)
                  THEN ReadScalar(SubSeq(l, 7, Len(l))) ELSE JBad
             rest == ReadItems(Tail(ls))
         IN [ok |-> v.kind = "string" /\ rest.ok, items |-> <<v.str>> \o rest.items]

\* The <<key, value>> pairs of the body of an object at 4 spaces.
RECURSIVE ReadPairs(_)
ReadPairs(ls) ==
    IF ls = <<>> THEN [ok |-> TRUE, pairs |-> <<>>]
    ELSE IF ~StartsWith(ls[1], <<" ", " ", " ", " ", "\"">>) THEN [ok |-> FALSE, pairs |-> <<>>]
    ELSE
      LET l == SubSeq(ls[1], 5, Len(ls[1]))
          ends == {k \in 2..Len(l) : l[k] = "\""}
      IN IF ends = {} THEN [ok |-> FALSE, pairs |-> <<>>]
         ELSE
           LET kend == CHOOSE k \in ends : \A j \in ends : k <= j
               key == SubSeq(l, 2, kend - 1)
               after == SubSeq(l, kend + 1, Len(l))
           IN IF ~StartsWith(after, <<":", " ">>) THEN [ok |-> FALSE, pairs |-> <<>>]
              ELSE
                LET v == SubSeq(after, 3, Len(after)) IN
                IF v = <<"[">> THEN
                  \* a multi-line array: its items, then "    ]"
                  LET closes == {k \in 2..Len(ls) :
                                   ls[k] = <<" ", " ", " ", " ", "]">>
                                   \/ ls[k] = <<" ", " ", " ", " ", "]", ",">>}
                  IN IF closes = {} THEN [ok |-> FALSE, pairs |-> <<>>]
                     ELSE
                       LET c == CHOOSE k \in closes : \A j \in closes : k <= j
                           items == ReadItems(SubSeq(ls, 2, c - 1))
                           rest == ReadPairs(SubSeq(ls, c + 1, Len(ls)))
                           comma == EndsWith(ls[c], ",")
                       IN [ok |-> items.ok /\ items.items # <<>> /\ rest.ok
                                  /\ (comma <=> c < Len(ls)),
                           pairs |-> << <<key, JArray(items.items)>> >> \o rest.pairs]
                ELSE
                  LET val == ReadScalar(ItemText(v, Len(ls) > 1))
                      rest == ReadPairs(Tail(ls))
                  IN [ok |-> val.kind # "malformed" /\ rest.ok,
                      pairs |-> << <<key, val>> >> \o rest.pairs]

\* The objects of the body of an array at 2 spaces: each runs from a line "  {"
\* to the next line "  }", with a comma when another object follows.
RECURSIVE ReadObjects(_)
ReadObjects(ls) ==
    IF ls = <<>> THEN [ok |-> TRUE, objects |-> <<>>]
    ELSE IF ls[1] # <<" ", " ", "{">> THEN [ok |-> FALSE, objects |-> <<>>]
    ELSE
      LET closes == {k \in 2..Len(ls) : ls[k] = <<" ", " ", "}">> \/ ls[k] = <<" ", " ", "}", ",">>}
      IN IF closes = {} THEN [ok |-> FALSE, objects |-> <<>>]
         ELSE
           LET c == CHOOSE k \in closes : \A j \in closes : k <= j
               body == ReadPairs(SubSeq(ls, 2, c - 1))
               rest == ReadObjects(SubSeq(ls, c + 1, Len(ls)))
           IN [ok |-> body.ok /\ body.pairs # <<>> /\ rest.ok
                      /\ (EndsWith(ls[c], ",") <=> c < Len(ls)),
               objects |-> <<body.pairs>> \o rest.objects]

\* The array written on the lines ls under 2-space indentation.
ReadArray(ls) ==
    IF ls = << <<"[", "]">> >> THEN [ok |-> TRUE, objects |-> <<>>]
    ELSE IF Len(ls) >= 3 /\ ls[1] = <<"[">> /\ ls[Len(ls)] = <<"]">>
         THEN LET r == ReadObjects(SubSeq(ls, 2, Len(ls) - 1))
              IN [ok |-> r.ok /\ r.objects # <<>>, objects |-> r.objects]
    ELSE [ok |-> FALSE, objects |-> <<>>]

\* The array bound to the constant of a generated text: what follows the six
\* header lines, up to the ";" that ends the last line before the final newline.
ReadFile(t) ==
    LET ls == SplitLines(t) IN
    IF Len(ls) >= 8 /\ ls[Len(ls)] = <<>> /\ EndsWith(ls[Len(ls) - 1], ";")
    THEN ReadArray(SubSeq(ls, 7, Len(ls) - 2) \o <<DropLast(ls[Len(ls) - 1])>>)
    ELSE [ok |-> FALSE, objects |-> <<>>]

\* The JSON value a reader expects for a tagged value.
AsJson(v) ==
    IF v.tag = "None" THEN JNull
    ELSE IF v.tag = "int" THEN JNumber(v.val)
    ELSE JString(v.val)

\* The object a reader expects for record r: its seven keys in the order of
\* the interface.
AsObject(r) ==
    << <<<<"n", "a", "m", "e">>, JString(r.name)>>,
       <<<<"s", "i", "t", "e">>, AsJson(r.site)>>,
       <<<<"f", "o", "r", "w", "a", "r", "d", "C", "u", "t">>, AsJson(r.forwardCut)>>,
       <<<<"r", "e", "v", "e", "r", "s", "e", "C", "u", "t">>, AsJson(r.reverseCut)>>,
       <<<<"o", "v", "e", "r", "h", "a", "n", "g", "L", "e", "n", "g", "t", "h">>, JNumber(r.overhangLength)>>,
       <<<<"o", "v", "e", "r", "h", "a", "n", "g", "T", "y", "p", "e">>,
         JString(CASE r.overhangType = "blunt" -> <<"b", "l", "u", "n", "t">>
                   [] r.overhangType = "5'" -> <<"5", "'">>
                   [] r.overhangType = "3'" -> <<"3", "'">>)>>,
       <<<<"s", "u", "p", "p", "l", "i", "e", "r", "s">>, JArray(r.suppliers)>> >>

\* ------------------------------------------------------------- properties

\* A raw entry the pipeline can use: it exposes every attribute, both cut
\* positions are integers and so is the stagger.
Usable(e) ==
    /\ e.site.tag # "missing"
    /\ e.fst5.tag = "int"
    /\ e.fst3.tag = "int"
    /\ e.ovhg.tag = "int"
    /\ e.suppl.tag # "missing"

\* The record the interface describes for a usable entry.
RecordOf(e) ==
    [name |-> e.name,
     site |-> e.site,
     forwardCut |-> e.fst5,
     reverseCut |-> e.fst3,
     overhangLength |-> IF e.ovhg.val < 0 THEN 0 - e.ovhg.val ELSE e.ovhg.val,
     overhangType |-> IF e.ovhg.val = 0 THEN "blunt"
                      ELSE IF e.ovhg.val < 0 THEN "5'" ELSE "3'",
     suppliers |-> IF e.suppl.tag = "tuple" THEN e.suppl.val ELSE <<>>]

\* The positions of the usable entries among the first n of the catalog.
UsableUpTo(n) == {k \in 1..n : Usable(catalog[k])}

\* a <= b in the ordinal order of strings: a is a prefix of b, or at the first
\* position where they differ a has the smaller code point.
OrdinalLeq(a, b) ==
    \/ Len(a) <= Len(b) /\ SubSeq(b, 1, Len(a)) = a
    \/ \E k \in 1..Len(a) :
         /\ k <= Len(b)
         /\ SubSeq(a, 1, k - 1) = SubSeq(b, 1, k - 1)
         /\ Ord(a[k]) < Ord(b[k])

\* main has left the loop and sorted the list.
Sorted == pc \in {"generate", "write", "print", "done"} \/ (pc = "failed" /\ ts_content # <<>>)

DistinctNames(c) == \A a, b \in 1..Len(c) : c[a].name = c[b].name => a = b

\* C1: get_overhang_info is total over the integer staggers: for every entry
\* of the catalog whose ovhg is an integer s it returns (no exception) the
\* pair (0, "blunt") when s = 0, (|s|, "5'") when s < 0 and (s, "3'") when
\* s > 0; so the length is >= 0 and the type is "blunt" exactly when s = 0.
C1_OverhangTotal ==
    \A k \in 1..Len(catalog) :
        LET e == catalog[k]
            s == e.ovhg.val
            r == get_overhang_info(e)
        IN e.ovhg.tag = "int" =>
             /\ r.exc = "none"
             /\ Len(r.ret) = 1
             /\ (s = 0 => r.ret[1] = [length |-> 0, type |-> "blunt"])
             /\ (s < 0 => r.ret[1] = [length |-> 0 - s, type |-> "5'"])
             /\ (s > 0 => r.ret[1] = [length |-> s, type |-> "3'"])
             /\ r.ret[1].length >= 0
             /\ (r.ret[1].type = "blunt" <=> s = 0)

\* C1 witness: the loop has just mapped an entry with a negative stagger to a
\* 5' overhang of the stagger's magnitude.
C1_Witness ==
    /\ outcome = "appended"
    /\ enzyme[1].ovhg.val = 0 - MaxStagger
    /\ data[1].overhangType = "5'"
    /\ data[1].overhangLength = MaxStagger

\* C2: every record of the list main builds has a forwardCut and a reverseCut
\* that are not None, and an entry whose fst5 or fst3 is None is never
\* appended, whatever its other attributes are.
C2_CutsDefined ==
    /\ \A k \in 1..Len(enzymes) :
         /\ enzymes[k].forwardCut.tag = "int"
         /\ enzymes[k].reverseCut.tag = "int"
    /\ (enzyme # <<>> /\ (enzyme[1].fst5.tag = "None" \/ enzyme[1].fst3.tag = "None"))
         => outcome # "appended"
    /\ Len(enzymes) <= Cardinality({k \in 1..i : catalog[k].fst5.tag = "int"
                                                /\ catalog[k].fst3.tag = "int"})

\* C2 witness: a run is done over an entry that is complete but for its
\* reverse cut position, which is None; the list is empty and the file holds
\* an empty array.
C2_Witness ==
    /\ pc = "done"
    /\ Len(catalog) = 1
    /\ catalog[1].fst3.tag = "None"
    /\ catalog[1].fst5.tag = "int"
    /\ catalog[1].site.tag = "str"
    /\ catalog[1].ovhg.tag = "int"
    /\ catalog[1].suppl.tag = "tuple"
    /\ enzymes = <<>>
    /\ ReadFile(file) = [ok |-> TRUE, objects |-> <<>>]

\* C3: for an entry that exposes all attributes, with both cut positions
\* defined and an integer stagger, the loop body appends the record whose
\* name, site, forwardCut and reverseCut are the entry's name, site, fst5 and
\* fst3, whose overhang is the one derived from the stagger, and whose
\* suppliers are the entry's supplier codes in their order.
C3_ExtractRecord ==
    (enzyme # <<>> /\ Usable(enzyme[1])) =>
        /\ outcome = "appended"
        /\ data = <<RecordOf(enzyme[1])>>
        /\ enzymes # <<>>
        /\ (pc = "loop" => enzymes[Len(enzymes)] = RecordOf(enzyme[1]))

\* C3 witness: the entry just mapped has a negative stagger and the suppliers
\* N, R, and the record holds them in that order.
C3_Witness ==
    /\ pc = "loop"
    /\ outcome = "appended"
    /\ enzyme[1].ovhg.val < 0
    /\ enzyme[1].suppl = TupleV(<< <<"N">>, <<"R">> >>)
    /\ data[1].suppliers = << <<"N">>, <<"R">> >>
    /\ data[1].forwardCut = IntV(1)
    /\ data[1].reverseCut = IntV(-1)

\* C4 as stated: an entry with both cut positions defined (and its site and an
\* integer stagger) whose suppl is None or missing altogether still gives a
\* record, with no suppliers.
C4_AsStated ==
    (/\ enzyme # <<>>
     /\ enzyme[1].fst5.tag = "int" /\ enzyme[1].fst3.tag = "int"
     /\ enzyme[1].ovhg.tag = "int" /\ enzyme[1].site.tag # "missing"
     /\ enzyme[1].suppl.tag \in {"None", "missing"})
    => (outcome = "appended" /\ data[1].suppliers = <<>>)

\* C4 amended: such an entry whose suppl is None or the empty tuple gives a
\* record with no suppliers; when the suppl attribute is missing altogether,
\* reading it raises AttributeError and the entry is skipped.
C4_SupplierDefault ==
    (/\ enzyme # <<>>
     /\ enzyme[1].fst5.tag = "int" /\ enzyme[1].fst3.tag = "int"
     /\ enzyme[1].ovhg.tag = "int" /\ enzyme[1].site.tag # "missing")
    => /\ (enzyme[1].suppl.tag = "None" \/ enzyme[1].suppl = TupleV(<<>>))
            => (outcome = "appended" /\ data[1].suppliers = <<>>)
       /\ enzyme[1].suppl.tag = "missing"
            => (outcome = "AttributeError"
                /\ (pc = "loop" => Len(enzymes) = Cardinality(UsableUpTo(i - 1))))

\* C4 witness: an entry whose suppl is None has just been appended with no
\* suppliers.
C4_Witness ==
    /\ outcome = "appended"
    /\ enzyme[1].suppl.tag = "None"
    /\ data[1].suppliers = <<>>
    /\ enzymes[Len(enzymes)].suppliers = <<>>

\* C5: an unusable entry never aborts the run.  The loop visits every entry
\* (main fails only at the write, after the text was generated); after i
\* entries the list holds one record per usable entry among them, so each
\* unusable one was omitted and each usable one is there.
C5_SkipUnusable ==
    /\ pc = "failed" => ts_content # <<>>
    /\ pc # "loop" => i = Len(catalog)
    /\ Len(enzymes) = Cardinality(UsableUpTo(i))
    /\ \A k \in UsableUpTo(i) : \E j \in 1..Len(enzymes) : enzymes[j] = RecordOf(catalog[k])
    /\ (enzyme # <<>> /\ ~Usable(enzyme[1])) => outcome \in {"no_cut_site", "AttributeError", "TypeError"}

\* C5 witness: a run is done whose catalog held an entry without its site
\* attribute and an entry with a None stagger, each followed by a usable entry
\* that is in the output.
C5_Witness ==
    /\ pc = "done"
    /\ \E a, b, c \in 1..Len(catalog) :
         /\ a < c /\ b < c
         /\ catalog[a].site.tag = "missing" /\ catalog[a].fst5.tag = "int"
         /\ catalog[b].ovhg.tag = "None" /\ catalog[b].fst5.tag = "int"
         /\ Usable(catalog[c])
         /\ \E j \in 1..Len(enzymes) : enzymes[j] = RecordOf(catalog[c])

\* C6: the list handed to generate_typescript is sorted ascending by name in
\* the ordinal order of strings: each record's name is <= the next one's.
C6_SortedByName ==
    Sorted => \A k \in 1..(Len(enzymes) - 1) :
                 OrdinalLeq(enzymes[k].name, enzymes[k + 1].name)

\* C6 witness: three records with three names are about to be rendered, and
\* the catalog enumerated the greatest name first.
C6_Witness ==
    /\ pc = "generate"
    /\ Len(enzymes) = 3
    /\ DistinctNames(enzymes)
    /\ catalog[1].name = enzymes[3].name

C8_TextLayout ==
    pc = "write" =>
        LET t == ts_content
            ls == SplitLines(t)
            back == ReadFile(t)
        IN /\ Len(ls) >= 8
           /\ ls[1] = <<"// Auto-generated from BioPython Bio.Restriction - DO NOT EDIT">>
           /\ ls[2] = <<"// Regenerate with: uv run generate-enzymes">>
           /\ ls[3] = <<>>
           /\ ls[4] = <<"import type { RestrictionEnzyme } from \"./types.js\";">>
           /\ ls[5] = <<>>
           /\ ls[6] = <<"export const enzymes: RestrictionEnzyme[] = ">>
           /\ ls[7][1] = "["
           /\ t[Len(t)] = "\n"
           /\ t[Len(t) - 1] = ";"
           /\ t[Len(t) - 2] = "]"
           /\ back.ok
           /\ back.objects = [k \in 1..Len(enzymes) |-> AsObject(enzymes[k])]

\* C8 witness: a text was generated from two records or more, one with
\* suppliers and one without.
C8_Witness ==
    /\ pc = "write"
    /\ Len(enzymes) >= 2
    /\ \E a, b \in 1..Len(enzymes) :
         enzymes[a].suppliers # <<>> /\ enzymes[b].suppliers = <<>>
    /\ Len(ReadFile(ts_content).objects) = Len(enzymes)

\* C9: the count main prints is the number of records in the file it wrote,
\* which is the number of usable entries of the catalog; the sorted list holds
\* each record as many times as the catalog holds usable entries giving it
\* (the sort drops, repeats and merges nothing, names shared or not); nothing
\* is printed before the file is written, nor when the write fails.
C9_ReportedCount ==
    /\ stdout # <<>> =>
         LET back == ReadFile(file)
         IN /\ pc = "done"
            /\ back.ok
            /\ stdout = <<Len(back.objects)>>
            /\ stdout = <<Cardinality(UsableUpTo(Len(catalog)))>>
    /\ pc = "done" => stdout # <<>>
    /\ pc \in {"loop", "generate", "write", "print", "failed"} => stdout = <<>>
    /\ Sorted =>
         \A k \in UsableUpTo(Len(catalog)) :
            Cardinality({j \in 1..Len(enzymes) : enzymes[j] = RecordOf(catalog[k])})
              = Cardinality({m \in UsableUpTo(Len(catalog)) :
                               RecordOf(catalog[m]) = RecordOf(catalog[k])})

\* C9 witness: a run has printed 2 for a catalog of an unusable entry and two
\* usable ones that share a name.
C9_Witness ==
    /\ pc = "done"
    /\ stdout = <<2>>
    /\ Len(catalog) = 3
    /\ enzymes[1].name = enzymes[2].name
    /\ enzymes[1] # enzymes[2]

\* C10: when the names of the catalog's entries are pairwise distinct, a run
\* that enumerates them in another order builds the same list and writes the
\* same text, and the list holds no name twice.
C10_OrderIndependent ==
    (previous # <<>> /\ pc = "done" /\ DistinctNames(catalog))
    => /\ enzymes = previous[1].enzymes
       /\ file = previous[1].file
       /\ DistinctNames(enzymes)

\* C10 witness: the second run enumerated three entries with distinct names in
\* another order than the first and is done.
C10_Witness ==
    /\ previous # <<>>
    /\ pc = "done"
    /\ DistinctNames(catalog)
    /\ Len(catalog) = 3
    /\ catalog # previous[1].catalog
    /\ Len(enzymes) >= 2
    /\ file = previous[1].file

\* The case C10 excludes: two usable entries share a name, the second run
\* enumerated them in the other order, and the two texts differ.
C10_SharedNameOrderShows ==
    /\ previous # <<>>
    /\ pc = "done"
    /\ ~DistinctNames(enzymes)
    /\ file # previous[1].file

====
